---- MODULE Spec2Model ----
(***************************************************************************)
(* Model of the simulation core of src/main.cpp: the force law             *)
(* (calculateForce), the pairwise and the approximated accumulation        *)
(* (updateForces, applyBarnesHut), the integrator (applyForces), the       *)
(* overlap test and resolution (overlap, resolveOverlap) and the frame     *)
(* loop of main that runs them.                                            *)
(*                                                                         *)
(* Numbers.  A C++ float is modelled as an extended rational num/den:      *)
(*   den > 0            the finite value num/den (kept in lowest terms)    *)
(*   num = 1,  den = 0  +infinity                                          *)
(*   num = -1, den = 0  -infinity                                          *)
(*   num = 0,  den = 0  NaN                                                *)
(* + - * / follow IEEE 754 on the special values (x/0 is an infinity,      *)
(* 0/0, 0*inf and inf-inf are NaN, every ordered comparison with NaN is    *)
(* false and  NaN != x  is true) and are exact on finite values.  The      *)
(* square root is exact when its argument is the square of a rational and  *)
(* otherwise rounded to the nearest multiple of 1/SqrtDen: it is the one   *)
(* operation whose result leaves the rationals, and the model rounds it    *)
(* as the machine does, only more coarsely.  Every divisor in the source   *)
(* is a square root, a square, a sum of radii or the literal 2.f, so the   *)
(* sign of a zero divisor never matters and zero carries no sign here.     *)
(***************************************************************************)
EXTENDS Integers, Naturals, Sequences, FiniteSets, TLC

VARIABLES
    nodes,       \* std::vector<Node> nodes
    edges,       \* std::vector<Edge> edges
    windowOpen,  \* window.isOpen()
    pc,          \* position of main in its frame loop
    i, j,        \* indices of the running range-for loops
    frame,       \* frames begun so far
    closeAfter,  \* the frame during which Event::Closed arrives
    calls,       \* calls made so far when the functions are exercised alone
    start,       \* the body set as it was first given
    before,      \* the body set before the last operation
    last,        \* the last operation and the bodies it was applied to
    ret,         \* what the last call of a value-returning function returned
    evals,       \* the pairs the last operation evaluated the force law on
    cnt          \* per frame: operations of each phase performed so far

vars == <<nodes, edges, windowOpen, pc, i, j, frame, closeAfter,
          calls, start, before, last, ret, evals, cnt>>

----------------------------------------------------------------------------
(* Bounds of the model.                                                    *)

\* Frames the window stays open for, at most.
MaxTicks == 3
\* Bodies of the frame loop's body set (the program allocates 50).
NumNodes == 2
\* Calls made on one drawn input when the functions are exercised alone.
MaxCalls == 3
\* Fraction bits of a rounded square root.
SqrtBits == 6
\* Grid of a rounded square root: results are multiples of 1/SqrtDen.
SqrtDen == 2 ^ SqrtBits

----------------------------------------------------------------------------
(* Extended rationals.                                                     *)

AbsInt(n) == IF n < 0 THEN -n ELSE n

SignInt(n) == IF n < 0 THEN -1 ELSE IF n > 0 THEN 1 ELSE 0

RECURSIVE GCD(_, _)
GCD(a, b) == IF b = 0 THEN a ELSE GCD(b, a % b)

\* num/den in lowest terms with a positive denominator; den = 0 gives the
\* special value of num's sign.
Norm(n, d) ==
    IF d = 0 THEN [num |-> SignInt(n), den |-> 0]
    ELSE LET g == GCD(AbsInt(n), AbsInt(d))
             s == IF d < 0 THEN -1 ELSE 1
         IN  [num |-> s * (n \div g), den |-> s * (d \div g)]

Q(n, d) == Norm(n, d)

Zero == [num |-> 0, den |-> 1]
NaN == [num |-> 0, den |-> 0]
PosInf == [num |-> 1, den |-> 0]
NegInf == [num |-> -1, den |-> 0]

IsNaN(x) == x.den = 0 /\ x.num = 0
IsInf(x) == x.den = 0 /\ x.num # 0
IsFinite(x) == x.den > 0

Neg(x) == [num |-> -x.num, den |-> x.den]

Abs(x) == [num |-> AbsInt(x.num), den |-> x.den]

Add(x, y) ==
    IF IsInf(x) /\ IsInf(y) THEN (IF x.num = y.num THEN x ELSE NaN)
    ELSE IF x.den = 0 \/ y.den = 0
         THEN Norm(x.num * y.den + y.num * x.den, 0)
         ELSE LET g == GCD(x.den, y.den)
              IN  Norm(x.num * (y.den \div g) + y.num * (x.den \div g),
                       (x.den \div g) * y.den)

Sub(x, y) == Add(x, Neg(y))

Mul(x, y) ==
    IF x.den = 0 \/ y.den = 0 THEN Norm(x.num * y.num, 0)
    ELSE LET g1 == GCD(AbsInt(x.num), y.den)
             g2 == GCD(AbsInt(y.num), x.den)
         IN  Norm((x.num \div g1) * (y.num \div g2),
                  (x.den \div g2) * (y.den \div g1))

\* 1/x: 1/0 is +infinity, 1/inf is 0, 1/NaN is NaN.
Recip(x) ==
    IF x.num < 0 THEN [num |-> -x.den, den |-> -x.num]
    ELSE [num |-> x.den, den |-> x.num]

Div(x, y) == Mul(x, Recip(y))

\* x < y; false when either is NaN.
Lt(x, y) ==
    IF IsNaN(x) \/ IsNaN(y) THEN FALSE
    ELSE IF x.den = 0 /\ y.den = 0 THEN x.num < y.num
    ELSE Add(x, Neg(y)).num < 0

\* x != y; true when either is NaN.
Ne(x, y) == IsNaN(x) \/ IsNaN(y) \/ x # y

\* pow(x, 2)
Pow2(x) == Mul(x, x)

RECURSIVE IsqrtIter(_, _, _)
IsqrtIter(m, lo, hi) ==
    IF lo >= hi THEN lo
    ELSE LET mid == (lo + hi + 1) \div 2
         IN  IF mid <= m \div mid THEN IsqrtIter(m, mid, hi)
             ELSE IsqrtIter(m, lo, mid - 1)

\* The largest r with r*r <= m.
Isqrt(m) == IF m <= 0 THEN 0 ELSE IsqrtIter(m, 1, IF m < 46340 THEN m ELSE 46340)

IsSquare(m) == Isqrt(m) * Isqrt(m) = m

\* The nearest integer to sqrt(m).
IsqrtNearest(m) == LET r == Isqrt(m) IN IF m - r * r > r THEN r + 1 ELSE r

\* sqrt(x): NaN for NaN and for negative x, +infinity for +infinity, exact
\* for the square of a rational, else rounded: to the nearest multiple of
\* 1/SqrtDen, and to the nearest integer for an argument too large for that
\* grid (the precision of a float is relative too).
Sqrt(x) ==
    IF IsNaN(x) \/ x.num < 0 THEN NaN
    ELSE IF IsInf(x) THEN PosInf
    ELSE IF IsSquare(x.num) /\ IsSquare(x.den) THEN Q(Isqrt(x.num), Isqrt(x.den))
    ELSE LET s2 == SqrtDen * SqrtDen
             whole == x.num \div x.den
         IN  IF whole < 2147483647 \div s2 - 1 /\ x.den < 2147483647 \div s2
             THEN Q(IsqrtNearest(whole * s2 + ((x.num % x.den) * s2) \div x.den),
                    SqrtDen)
             ELSE Q(IsqrtNearest(whole), 1)

----------------------------------------------------------------------------
(* sf::Vector2f                                                            *)

Vec(x, y) == [x |-> x, y |-> y]
ZeroVec == Vec(Zero, Zero)
NaNVec == Vec(NaN, NaN)

VAdd(u, v) == Vec(Add(u.x, v.x), Add(u.y, v.y))
VSub(u, v) == Vec(Sub(u.x, v.x), Sub(u.y, v.y))
VScale(u, s) == Vec(Mul(u.x, s), Mul(u.y, s))
VDiv(u, s) == Vec(Div(u.x, s), Div(u.y, s))

VFinite(u) == IsFinite(u.x) /\ IsFinite(u.y)

\* sqrt(pow(u.x, 2) + pow(u.y, 2)).  With one component zero this is the
\* absolute value of the other (the square and its root are both exact, in
\* the model and in the double arithmetic of pow and sqrt), which is taken
\* directly: the square of a long fraction need not be formed.
Length(u) ==
    IF u.y = Zero THEN Abs(u.x)
    ELSE IF u.x = Zero THEN Abs(u.y)
    ELSE Sqrt(Add(Pow2(u.x), Pow2(u.y)))

----------------------------------------------------------------------------
(* Constants of the program.                                               *)

G == Q(1, 10)
theta == Q(1, 2)
timeStep == Q(1, 10)
Two == Q(2, 1)
NodeRadius == Q(10, 1)
\* window.getView() of an 800 x 600 window: its centre and its width.
ViewCenter == Vec(Q(400, 1), Q(300, 1))
ViewSize == Q(800, 1)

\* A Node with the given position and radius, at rest, its shape in place.
MakeNode(pos, radius) ==
    [position |-> pos, velocity |-> ZeroVec, force |-> ZeroVec,
     shape |-> [radius |-> radius, position |-> pos]]

----------------------------------------------------------------------------
(* The functions of the simulation core.                                   *)

calculateForce(a, b) ==
    LET direction0 == VSub(b.position, a.position)
        distance == Length(direction0)
        direction == IF Ne(distance, Zero) THEN VDiv(direction0, distance)
                     ELSE direction0
        forceMagnitude == Div(Mul(Mul(G, a.shape.radius), b.shape.radius),
                              Pow2(distance))
    IN  VScale(direction, forceMagnitude)

\* applyForces without line 43: the force is not reset.
applyForcesNoReset(node, dt) ==
    LET velocity == VAdd(node.velocity, VScale(node.force, dt))
        position == VAdd(node.position, VScale(velocity, dt))
    IN  [node EXCEPT !.velocity = velocity,
                     !.position = position,
                     !.shape.position = position]

\* applyForces with lines 39 and 40 exchanged: the position moves by the
\* velocity of before the call (explicit Euler).
applyForcesExplicit(node, dt) ==
    LET position == VAdd(node.position, VScale(node.velocity, dt))
        velocity == VAdd(node.velocity, VScale(node.force, dt))
    IN  [node EXCEPT !.velocity = velocity,
                     !.position = position,
                     !.force = ZeroVec,
                     !.shape.position = position]

applyForces(node, dt) ==
    LET velocity == VAdd(node.velocity, VScale(node.force, dt))
        position == VAdd(node.position, VScale(velocity, dt))
    IN  [node EXCEPT !.velocity = velocity,
                     !.position = position,
                     !.force = ZeroVec,
                     !.shape.position = position]

\* The force of ns[n] after the loop of updateForces has met ns[1..k].
RECURSIVE updateForcesLoop(_, _, _)
updateForcesLoop(n, ns, k) ==
    IF k = 0 THEN ns[n].force
    ELSE IF k # n
         THEN VAdd(updateForcesLoop(n, ns, k - 1), calculateForce(ns[n], ns[k]))
         ELSE updateForcesLoop(n, ns, k - 1)

updateForces(n, ns) ==
    [ns EXCEPT ![n].force = updateForcesLoop(n, ns, Len(ns))]

\* The pairs updateForces(ns[n], ns) evaluates the force law on.
updateForcesEvals(n, ns) == {<<n, k>> : k \in {m \in 1..Len(ns) : m # n}}

\* centerOfMass and totalMass after the loop of applyBarnesHut has met ns[1..k].
RECURSIVE centerOfMassLoop(_, _, _)
centerOfMassLoop(n, ns, k) ==
    IF k = 0 THEN [centerOfMass |-> ZeroVec, totalMass |-> Zero]
    ELSE LET acc == centerOfMassLoop(n, ns, k - 1)
         IN  IF k # n
             THEN [centerOfMass |-> VAdd(acc.centerOfMass,
                                         VScale(ns[k].position, ns[k].shape.radius)),
                   totalMass |-> Add(acc.totalMass, ns[k].shape.radius)]
             ELSE acc

\* The condition of applyBarnesHut: size / distance(center, node) < theta.
farFrom(node, center, size) ==
    Lt(Div(size, Length(VSub(center, node.position))), theta)

\* The synthetic body of the else branch of applyBarnesHut.
aggregateNode(n, ns, size) ==
    LET acc == centerOfMassLoop(n, ns, Len(ns))
    IN  MakeNode(VDiv(acc.centerOfMass, acc.totalMass), size)

\* applyBarnesHut whose synthetic body has the mass of the bodies it stands
\* for instead of the size of the view.
applyBarnesHutMass(n, ns, center, size) ==
    IF farFrom(ns[n], center, size)
    THEN [ns EXCEPT ![n].force = VAdd(ns[n].force, calculateForce(ns[n], ns[1]))]
    ELSE [ns EXCEPT ![n].force =
              VAdd(ns[n].force,
                   calculateForce(ns[n],
                       aggregateNode(n, ns, centerOfMassLoop(n, ns, Len(ns)).totalMass)))]

applyBarnesHut(n, ns, center, size) ==
    IF farFrom(ns[n], center, size)
    THEN [ns EXCEPT ![n].force = VAdd(ns[n].force, calculateForce(ns[n], ns[1]))]
    ELSE [ns EXCEPT ![n].force =
              VAdd(ns[n].force, calculateForce(ns[n], aggregateNode(n, ns, size)))]

\* The pairs applyBarnesHut evaluates the force law on; 0 is the synthetic body.
applyBarnesHutEvals(n, ns, center, size) ==
    IF farFrom(ns[n], center, size) THEN {<<n, 1>>} ELSE {<<n, 0>>}

overlap(a, b) ==
    LET distance == Length(VSub(a.position, b.position))
    IN  Lt(distance, Add(a.shape.radius, b.shape.radius))

\* resolveOverlap without the halving of line 84: each body is pushed by the
\* whole penetration depth.
resolveOverlapFull(a, b) ==
    LET direction0 == VSub(a.position, b.position)
        distance == Length(direction0)
        overlapAmount == Sub(Add(a.shape.radius, b.shape.radius), distance)
        direction == VDiv(direction0, distance)
        apos == VAdd(a.position, VScale(direction, overlapAmount))
        bpos == VSub(b.position, VScale(direction, overlapAmount))
    IN  <<[a EXCEPT !.position = apos, !.shape.position = apos],
          [b EXCEPT !.position = bpos, !.shape.position = bpos]>>

\* resolveOverlap that also stops the two bodies.
resolveOverlapStop(a, b) ==
    LET direction0 == VSub(a.position, b.position)
        distance == Length(direction0)
        overlapAmount == Div(Sub(Add(a.shape.radius, b.shape.radius), distance), Two)
        direction == VDiv(direction0, distance)
        apos == VAdd(a.position, VScale(direction, overlapAmount))
        bpos == VSub(b.position, VScale(direction, overlapAmount))
    IN  <<[a EXCEPT !.position = apos, !.shape.position = apos, !.velocity = ZeroVec],
          [b EXCEPT !.position = bpos, !.shape.position = bpos, !.velocity = ZeroVec]>>

\* The two bodies after resolveOverlap(a, b).
resolveOverlap(a, b) ==
    LET direction0 == VSub(a.position, b.position)
        distance == Length(direction0)
        overlapAmount == Div(Sub(Add(a.shape.radius, b.shape.radius), distance), Two)
        direction == VDiv(direction0, distance)
        apos == VAdd(a.position, VScale(direction, overlapAmount))
        bpos == VSub(b.position, VScale(direction, overlapAmount))
    IN  <<[a EXCEPT !.position = apos, !.shape.position = apos],
          [b EXCEPT !.position = bpos, !.shape.position = bpos]>>

----------------------------------------------------------------------------
(* The frame loop of main.                                                 *)

\* The edges main builds: one per pair i < j, in the order of its two loops,
\* each with an untouched two-vertex line.
RECURSIVE buildEdges(_, _, _)
buildEdges(n, a, b) ==
    IF a > n THEN <<>>
    ELSE IF b > n THEN buildEdges(n, a + 1, a + 2)
    ELSE <<[source |-> a, target |-> b, line |-> <<ZeroVec, ZeroVec>>]>>
         \o buildEdges(n, a, b + 1)

NoCount == [update |-> 0, barnes |-> 0, apply |-> 0, collide |-> 0, resolve |-> 0]
NoRet == [force |-> ZeroVec, flag |-> FALSE]
NoOp == [op |-> "none", a |-> 0, b |-> 0, n |-> 0]

\* Where rand() % 800, rand() % 600 may put a body: a few of the places near
\* the centre of the window, on one horizontal line.
InitPos == {Vec(Q(390, 1), Q(300, 1)), Vec(Q(400, 1), Q(300, 1)),
            Vec(Q(410, 1), Q(300, 1))}

\* The state main enters its frame loop in, given the bodies' positions.
InitWith(positions, closing) ==
    /\ nodes = [k \in 1..Len(positions) |-> MakeNode(positions[k], NodeRadius)]
    /\ edges = buildEdges(Len(positions), 1, 2)
    /\ windowOpen = TRUE
    /\ pc = "loop"
    /\ i = 1
    /\ j = 1
    /\ frame = 0
    /\ closeAfter \in closing
    /\ calls = 0
    /\ start = nodes
    /\ before = nodes
    /\ last = NoOp
    /\ ret = NoRet
    /\ evals = {}
    /\ cnt = NoCount

Init == \E positions \in [1..NumNodes -> InitPos] : InitWith(positions, 1..MaxTicks)

\* What a step of the frame loop records about itself.
ghostsOf(op, a, b, ev) ==
    /\ before' = nodes
    /\ last' = [op |-> op, a |-> a, b |-> b, n |-> 0]
    /\ evals' = ev
    /\ ret' = NoRet
    /\ UNCHANGED <<start, calls, closeAfter>>

\* while (window.isOpen())
LoopHead ==
    /\ pc = "loop"
    /\ IF windowOpen THEN pc' = "poll" /\ frame' = frame + 1
                     ELSE pc' = "done" /\ frame' = frame
    /\ ghostsOf("loop", 0, 0, {})
    /\ UNCHANGED <<nodes, edges, windowOpen, i, j, cnt>>

\* The event loop and window.clear(): the window closes when Event::Closed
\* has arrived; the frame goes on either way.
PollEvents ==
    /\ pc = "poll"
    /\ windowOpen' = (frame # closeAfter)
    /\ pc' = "update"
    /\ i' = 1
    /\ cnt' = NoCount
    /\ ghostsOf("poll", 0, 0, {})
    /\ UNCHANGED <<nodes, edges, j, frame>>

\* for (auto& node : nodes) updateForces(node, nodes);
UpdateForcesStep ==
    /\ pc = "update"
    /\ nodes' = updateForces(i, nodes)
    /\ IF i < Len(nodes) THEN i' = i + 1 /\ pc' = pc
                         ELSE i' = 1 /\ pc' = "barnes"
    /\ cnt' = [cnt EXCEPT !.update = @ + 1]
    /\ ghostsOf("updateForces", i, 0, updateForcesEvals(i, nodes))
    /\ UNCHANGED <<edges, windowOpen, j, frame>>

\* The loops of lines 134 and 138 fused: each body is integrated as soon as
\* its approximated force is added.
BarnesHutStepFused ==
    /\ pc = "barnes"
    /\ nodes' = [applyBarnesHut(i, nodes, ViewCenter, ViewSize) EXCEPT
                    ![i] = applyForces(@, timeStep)]
    /\ IF i < Len(nodes) THEN i' = i + 1 /\ pc' = pc
                         ELSE i' = 1 /\ pc' = "apply"
    /\ cnt' = [cnt EXCEPT !.barnes = @ + 1, !.apply = @ + 1]
    /\ ghostsOf("applyBarnesHut", i, 0,
                applyBarnesHutEvals(i, nodes, ViewCenter, ViewSize))
    /\ UNCHANGED <<edges, windowOpen, j, frame>>

\* for (auto& node : nodes) applyBarnesHut(node, nodes, center, size.x);
BarnesHutStep ==
    /\ pc = "barnes"
    /\ nodes' = applyBarnesHut(i, nodes, ViewCenter, ViewSize)
    /\ IF i < Len(nodes) THEN i' = i + 1 /\ pc' = pc
                         ELSE i' = 1 /\ pc' = "apply"
    /\ cnt' = [cnt EXCEPT !.barnes = @ + 1]
    /\ ghostsOf("applyBarnesHut", i, 0,
                applyBarnesHutEvals(i, nodes, ViewCenter, ViewSize))
    /\ UNCHANGED <<edges, windowOpen, j, frame>>

\* for (auto& node : nodes) applyForces(node, 0.1f);
ApplyForcesStep ==
    /\ pc = "apply"
    /\ nodes' = [nodes EXCEPT ![i] = applyForces(nodes[i], timeStep)]
    /\ IF i < Len(nodes) THEN i' = i + 1 /\ pc' = pc /\ j' = j
                         ELSE i' = 1 /\ j' = 1 /\ pc' = "collide"
    /\ cnt' = [cnt EXCEPT !.apply = @ + 1]
    /\ ghostsOf("applyForces", i, 0, {})
    /\ UNCHANGED <<edges, windowOpen, frame>>

\* One pass of the inner loop of the collision phase, on nodes[i], nodes[j].
CollideStep ==
    /\ pc = "collide"
    /\ LET hit == i # j /\ overlap(nodes[i], nodes[j])
           moved == resolveOverlap(nodes[i], nodes[j])
       IN  /\ nodes' = IF hit THEN [nodes EXCEPT ![i] = moved[1], ![j] = moved[2]]
                       ELSE nodes
           /\ cnt' = [cnt EXCEPT !.collide = @ + 1,
                                 !.resolve = IF hit THEN @ + 1 ELSE @]
           /\ ghostsOf(IF hit THEN "resolveOverlap" ELSE "overlap", i, j, {})
    /\ IF j < Len(nodes) THEN j' = j + 1 /\ i' = i /\ pc' = pc
       ELSE IF i < Len(nodes) THEN j' = 1 /\ i' = i + 1 /\ pc' = pc
       ELSE j' = 1 /\ i' = 1 /\ pc' = "edges"
    /\ UNCHANGED <<edges, windowOpen, frame>>

\* One pass of the loop over the edges: the line follows its two bodies.
DrawEdgeStep ==
    /\ pc = "edges"
    /\ i <= Len(edges)
    /\ edges' = [edges EXCEPT ![i].line = <<nodes[edges[i].source].position,
                                            nodes[edges[i].target].position>>]
    /\ i' = i + 1
    /\ ghostsOf("drawEdge", i, 0, {})
    /\ UNCHANGED <<nodes, windowOpen, pc, j, frame, cnt>>

\* The nodes are drawn and the frame is displayed.
Display ==
    /\ pc = "edges"
    /\ i > Len(edges)
    /\ pc' = "loop"
    /\ i' = 1
    /\ ghostsOf("display", 0, 0, {})
    /\ UNCHANGED <<nodes, edges, windowOpen, j, frame, cnt>>

Next ==
    \/ LoopHead
    \/ PollEvents
    \/ UpdateForcesStep
    \/ BarnesHutStep
    \/ ApplyForcesStep
    \/ CollideStep
    \/ DrawEdgeStep
    \/ Display

Spec == Init /\ [][Next]_vars

\* The end-to-end scenarios: two bodies on the line y = 0, the window closed
\* during the first frame.
ScenarioLeft == {0, 10, 20}
ScenarioRight == {100, 110, 120, 130}

InitScenario ==
    \E x0 \in ScenarioLeft, x1 \in ScenarioRight :
        InitWith(<<Vec(Q(x0, 1), Zero), Vec(Q(x1, 1), Zero)>>, {1})

SpecScenario == InitScenario /\ [][Next]_vars

----------------------------------------------------------------------------
(* The functions called on their own, on drawn body sets.                  *)

\* Places of a drawn body: the corner of the window, beside it on the same
\* horizontal line, below it on the same vertical line, off both lines, the
\* centre of the view, and far outside the window.
Corner == Vec(Zero, Zero)
Beside == Vec(Q(15, 1), Zero)
Below == Vec(Zero, Q(12, 1))
OffLine == Vec(Q(1, 1), Q(2, 1))
AtCentre == Vec(Q(400, 1), Q(300, 1))
FarAway == Vec(Q(2400, 1), Q(300, 1))
FnNear == {Corner, Beside, Below, OffLine}
FnVel == {ZeroVec, Vec(Q(3, 1), Q(-2, 1))}
FnForce == {ZeroVec, Vec(Q(1, 1), Q(1, 2))}
FnRadius == {Q(10, 1), Q(7, 1)}

\* Body sets of one or two bodies.  The first body may be moving and loaded,
\* and smaller than the program's bodies.  Two
\* bodies are at the same place, or one of them is at the corner; a body far
\* away is at rest and shares the set with none or with a body at the centre.
FnInputs ==
    LET sized == FnNear \X FnRadius
        first == {[MakeNode(q[1], q[2]) EXCEPT !.velocity = v, !.force = f] :
                      q \in sized, v \in FnVel, f \in FnForce}
        second == {MakeNode(p, NodeRadius) : p \in FnNear}
        far == MakeNode(FarAway, NodeRadius)
        centre == MakeNode(AtCentre, NodeRadius)
    IN  {<<a>> : a \in first}
        \cup {p \in first \X second :
                  \/ p[1].position = p[2].position
                  \/ Corner \in {p[1].position, p[2].position}}
        \cup {<<far>>, <<far, centre>>, <<centre, far>>}

InitFn ==
    /\ nodes \in FnInputs
    /\ edges = buildEdges(Len(nodes), 1, 2)
    /\ windowOpen = TRUE
    /\ pc = "fn"
    /\ i = 1
    /\ j = 1
    /\ frame = 0
    /\ closeAfter = 0
    /\ calls = 0
    /\ start = nodes
    /\ before = nodes
    /\ last = NoOp
    /\ ret = NoRet
    /\ evals = {}
    /\ cnt = NoCount

\* One call: what it leaves of the body set, what it returns and what it
\* evaluated the force law on.  A drawn body set is given to one function;
\* the integrator is called on it up to MaxCalls times, any other function
\* once.
FnCall(op, a, b, ns, r, ev) ==
    /\ pc = "fn"
    /\ calls < MaxCalls
    /\ last.op = "none" \/ (op = "applyForces" /\ last.op = op)
    /\ calls' = calls + 1
    /\ nodes' = ns
    /\ before' = nodes
    /\ last' = [op |-> op, a |-> a, b |-> b,
                n |-> IF last.op = op /\ last.a = a /\ last.b = b
                      THEN last.n + 1 ELSE 1]
    /\ ret' = r
    /\ evals' = ev
    /\ UNCHANGED <<edges, windowOpen, pc, i, j, frame, closeAfter, start, cnt>>

FnCalculateForce ==
    \E a \in 1..Len(nodes), b \in 1..Len(nodes) :
        /\ a # b
        /\ FnCall("calculateForce", a, b, nodes,
                  [force |-> calculateForce(nodes[a], nodes[b]), flag |-> FALSE],
                  {<<a, b>>})

FnOverlap ==
    \E a \in 1..Len(nodes), b \in 1..Len(nodes) :
        /\ a # b
        /\ FnCall("overlap", a, b, nodes,
                  [force |-> ZeroVec, flag |-> overlap(nodes[a], nodes[b])], {})

\* resolveOverlap, called as main calls it: on two distinct bodies that overlap.
FnResolveOverlap ==
    \E a \in 1..Len(nodes), b \in 1..Len(nodes) :
        /\ a # b
        /\ overlap(nodes[a], nodes[b])
        /\ LET moved == resolveOverlap(nodes[a], nodes[b])
           IN  FnCall("resolveOverlap", a, b,
                      [nodes EXCEPT ![a] = moved[1], ![b] = moved[2]], NoRet, {})

FnApplyForces ==
    \E a \in 1..Len(nodes) :
        FnCall("applyForces", a, 0,
               [nodes EXCEPT ![a] = applyForces(nodes[a], timeStep)], NoRet, {})

FnUpdateForces ==
    \E a \in 1..Len(nodes) :
        FnCall("updateForces", a, 0, updateForces(a, nodes), NoRet,
               updateForcesEvals(a, nodes))

FnApplyBarnesHut ==
    \E a \in 1..Len(nodes) :
        FnCall("applyBarnesHut", a, 0,
               applyBarnesHut(a, nodes, ViewCenter, ViewSize), NoRet,
               applyBarnesHutEvals(a, nodes, ViewCenter, ViewSize))

NextFn ==
    \/ FnCalculateForce
    \/ FnOverlap
    \/ FnResolveOverlap
    \/ FnApplyForces
    \/ FnUpdateForces
    \/ FnApplyBarnesHut

SpecFn == InitFn /\ [][NextFn]_vars

----------------------------------------------------------------------------
(* Properties.                                                             *)

Bodies == 1..Len(nodes)

\* The distance of two bodies, as overlap computes it.
Distance(a, b) == Length(VSub(a.position, b.position))

IsInteger(x) == x.den = 1

\* Centres on a common horizontal or vertical line, all coordinates and both
\* radii whole numbers: every step of resolveOverlap is then exact.
ExactPair(a, b) ==
    /\ a.position.x = b.position.x \/ a.position.y = b.position.y
    /\ \A x \in {a.position.x, a.position.y, b.position.x, b.position.y,
                 a.shape.radius, b.shape.radius} : IsInteger(x)

\* The entry of a tick: the frame has begun and nothing is accumulated yet.
TickEntry == pc = "poll" \/ (pc = "update" /\ i = 1)

\* C1: at the entry of every tick, the first as well as any later one, the
\* force of every body is the zero vector.
C1_ForceZeroAtTickEntry ==
    TickEntry => \A k \in Bodies : nodes[k].force = ZeroVec

\* A later tick is entered by bodies that forces have set in motion.
C1_Witness ==
    /\ pc = "update" /\ i = 1 /\ frame >= 2
    /\ \E k \in Bodies : VFinite(nodes[k].velocity) /\ nodes[k].velocity # ZeroVec
    /\ \A k \in Bodies : nodes[k].force = ZeroVec

\* No body is integrated before every body has both its accumulations, and
\* no pair is tested for overlap before every body is integrated.
PhaseOrder ==
    /\ cnt.apply > 0 => cnt.update = Len(nodes) /\ cnt.barnes = Len(nodes)
    /\ cnt.collide > 0 => cnt.apply = Len(nodes)

\* C2: within every tick the phases run in strict order: accumulation is
\* over for all bodies before any is integrated, integration is over for all
\* before any overlap test or resolution; accumulation changes no position
\* and no velocity; and a tick begins only when no tick has run yet or the
\* collision phase of the one before has met every pair.
C2_PhasesInOrder ==
    [][/\ PhaseOrder'
       /\ last'.op \in {"updateForces", "applyBarnesHut"} =>
              \A k \in Bodies : /\ nodes'[k].position = nodes[k].position
                                /\ nodes'[k].velocity = nodes[k].velocity
       /\ last'.op = "poll" =>
              cnt = NoCount \/ cnt.collide = Len(nodes) * Len(nodes)]_vars

\* A later tick has run through all of its phases, with an overlap resolved.
C2_Witness ==
    /\ frame >= 2
    /\ pc = "edges"
    /\ cnt.update = Len(nodes) /\ cnt.barnes = Len(nodes) /\ cnt.apply = Len(nodes)
    /\ cnt.collide = Len(nodes) * Len(nodes)
    /\ cnt.resolve > 0

\* One edge per unordered pair of distinct bodies.
EdgesComplete ==
    /\ {<<edges[e].source, edges[e].target>> : e \in 1..Len(edges)}
           = {p \in Bodies \X Bodies : p[1] < p[2]}
    /\ 2 * Len(edges) = Len(nodes) * (Len(nodes) - 1)

TwoBodyScenario ==
    start = <<MakeNode(Vec(Zero, Zero), NodeRadius),
              MakeNode(Vec(Q(100, 1), Zero), NodeRadius)>>

\* The accumulation of the first tick is over and nothing is integrated yet.
Accumulated == frame = 1 /\ pc = "apply" /\ i = 1

\* The first tick has run its collision phase.
TickDone == frame = 1 /\ pc \in {"edges", "loop", "done"}

\* Both bodies are on the line y = 0, strictly between their first places,
\* and no overlap was resolved.
MovedTogether ==
    /\ Lt(Zero, nodes[1].position.x)
    /\ Lt(nodes[1].position.x, nodes[2].position.x)
    /\ Lt(nodes[2].position.x, Q(100, 1))
    /\ nodes[1].position.y = Zero /\ nodes[2].position.y = Zero
    /\ cnt.resolve = 0

\* C7 as stated: in the two-body scenario the force accumulated on each body
\* by one tick of the frame loop has magnitude 0.01 and points to the other
\* body; afterwards both have moved toward each other and no overlap was
\* resolved.
C7_AsStated ==
    TwoBodyScenario =>
        /\ Accumulated => /\ nodes[1].force = Vec(Q(1, 100), Zero)
                          /\ nodes[2].force = Vec(Q(-1, 100), Zero)
        /\ TickDone => MovedTogether

\* C7 as amended: the force accumulated on each body has magnitude 0.081:
\* 0.001 = 0.1*10*10/100^2 from updateForces and 0.08 = 0.1*10*800/100^2
\* from applyBarnesHut, whose synthetic body sits at the other body and has
\* the width of the view for its radius; it points to the other body, both
\* bodies move toward each other and no overlap is resolved.
C7_NetForce ==
    TwoBodyScenario =>
        /\ Accumulated => /\ nodes[1].force = Vec(Q(81, 1000), Zero)
                          /\ nodes[2].force = Vec(Q(-81, 1000), Zero)
        /\ TickDone => MovedTogether

\* The tick of the two-body scenario has been run to its end.
C7_Witness ==
    /\ TwoBodyScenario
    /\ frame = 1 /\ pc = "loop"
    /\ MovedTogether
    /\ nodes[1].velocity = Vec(Q(81, 10000), Zero)

\* A call of the named function on two bodies has just returned.
Called(op) == pc = "fn" /\ last.op = op

\* C3: calculateForce of two bodies at the same position is the zero vector.
C3_CoincidentForceZero ==
    Called("calculateForce") /\ nodes[last.a].position = nodes[last.b].position
        => ret.force = ZeroVec

\* resolveOverlap was called on two overlapping bodies at different places.
ResolvedApart ==
    /\ Called("resolveOverlap")
    /\ before[last.a].position # before[last.b].position

\* What resolveOverlap is to leave of the pair a, b it was called on: the
\* distance is the sum of the radii, a and b were displaced by opposite
\* vectors, each half the penetration depth long and along the line of the
\* centres, away from the other body, and the two no longer overlap.
Separated ==
    LET a0 == before[last.a]
        b0 == before[last.b]
        a1 == nodes[last.a]
        b1 == nodes[last.b]
        sum == Add(a0.shape.radius, b0.shape.radius)
        half == Div(Sub(sum, Distance(a0, b0)), Two)
        da == VSub(a1.position, a0.position)
        db == VSub(b1.position, b0.position)
        line == VSub(a0.position, b0.position)
    IN  /\ Distance(a1, b1) = sum
        /\ da = VSub(ZeroVec, db)
        /\ Length(da) = half
        /\ Mul(da.x, line.y) = Mul(da.y, line.x)
        /\ Lt(Zero, Add(Mul(da.x, line.x), Mul(da.y, line.y)))
        /\ ~overlap(a1, b1)

\* C4 as stated: after resolveOverlap on any overlapping pair with non-zero
\* separation the distance is exactly the sum of the radii, both bodies
\* were displaced by half the penetration depth in opposite directions
\* along the line of their centres, and the pair no longer overlaps.
C4_AsStated == ResolvedApart => Separated

\* C4 as amended: this holds when every step of resolveOverlap is exact, as
\* for centres on a common horizontal or vertical line with whole
\* coordinates and radii (the example: radii 10 and 10 at (0,0) and (15,0)
\* end at distance exactly 20).  For centres in general position the
\* distance is a rounded square root and the pair ends only near the sum of
\* its radii, and may still overlap.
C4_ExactWhenAligned ==
    ResolvedApart /\ ExactPair(before[last.a], before[last.b]) => Separated

\* The example of the claim: radii 10 and 10 at (0,0) and (15,0) end 20 apart.
C4_Witness ==
    /\ ResolvedApart
    /\ before[last.a].position = Corner /\ before[last.b].position = Beside
    /\ before[last.a].shape.radius = NodeRadius
    /\ nodes[last.a].position = Vec(Q(-5, 2), Zero)
    /\ nodes[last.b].position = Vec(Q(35, 2), Zero)
    /\ Distance(nodes[last.a], nodes[last.b]) = Q(20, 1)

\* C5: resolveOverlap on two bodies at exactly the same position leaves both
\* with defined positions.
C5_CoincidentResolved ==
    /\ Called("resolveOverlap")
    /\ before[last.a].position = before[last.b].position
    /\ VFinite(before[last.a].position)
    => VFinite(nodes[last.a].position) /\ VFinite(nodes[last.b].position)

\* C6: applyBarnesHut in its centroid branch on a body that is alone in the
\* body set leaves the body's force unchanged and defined.
C6_LoneBodyKeepsForce ==
    /\ Called("applyBarnesHut")
    /\ Len(nodes) = 1
    /\ ~farFrom(before[last.a], ViewCenter, ViewSize)
    => /\ nodes[last.a].force = before[last.a].force
       /\ VFinite(nodes[last.a].force)

\* C8: applyForces sets the velocity to velocity + force*dt, the position to
\* position + (the new velocity)*dt and the force to zero; and a body with
\* zero force integrated N times in a row keeps its velocity and ends at
\* position_0 + velocity_0*dt*N.
C8_SemiImplicitEuler ==
    Called("applyForces") =>
        LET old == before[last.a]
            new == nodes[last.a]
        IN  /\ new.velocity = VAdd(old.velocity, VScale(old.force, timeStep))
            /\ new.position = VAdd(old.position, VScale(new.velocity, timeStep))
            /\ new.force = ZeroVec
            /\ last.n = calls /\ start[last.a].force = ZeroVec =>
                   /\ new.velocity = start[last.a].velocity
                   /\ new.position =
                          VAdd(start[last.a].position,
                               VScale(start[last.a].velocity,
                                      Mul(timeStep, Q(calls, 1))))

\* A moving body with zero force has been integrated several times in a row
\* and has left its place.
C8_Witness ==
    /\ Called("applyForces")
    /\ last.n = calls /\ calls >= 2
    /\ start[last.a].force = ZeroVec
    /\ start[last.a].velocity = Vec(Q(3, 1), Q(-2, 1))
    /\ nodes[last.a].velocity = start[last.a].velocity
    /\ nodes[last.a].position # before[last.a].position
    /\ before[last.a].position # start[last.a].position

\* C10: no accumulation evaluates the force law between a body and itself.
C10_NoSelfForce == \A p \in evals : p[1] # p[2]

====
